---- MODULE Spec2Model ----
(***************************************************************************)
(* Model of the release-artifact organiser: the manifest handler of        *)
(* full_final_script.py (MetaJsonHandler) and the folder router and key    *)
(* canonicaliser of full_local_script.py.                                   *)
(*                                                                         *)
(* Strings whose characters the code inspects (file names, directory       *)
(* names, dictionary keys, environment-variable names, regex literals)     *)
(* are sequences of one-character strings.  Python dicts are sequences of  *)
(* <<key, value>> pairs in insertion order.                                 *)
(***************************************************************************)
EXTENDS Integers, Sequences, FiniteSets, TLC

VARIABLES
    dirName,       \* final script: directory id -> basename on disk
    dirFiles,      \* final script: directory id -> regular files, in listing order
    hasManifest,   \* final script: directories that hold a meta.json
    manifest,      \* final script: directory id -> content of its meta.json
    env,           \* os.environ, a sequence of <<name, value>>
    hasBuildInfo,  \* buildInfo.json exists at the release root
    buildInfo,     \* content of buildInfo.json
    err,           \* exception raised by the last operation, "none" if it returned
    hist,          \* final script: the calls made so far (a raising update is marked)
    lastOp,        \* name of the last operation
    folderStructure, \* local script: the loaded folderStructure.json
    dirs,          \* local script: existing directories (paths below the cwd)
    placed,        \* local script: directory path -> its files, in listing order
    localMeta,     \* local script: directory path -> meta.json content (<<>> if none)
    preFiles,      \* local script: localMeta before the last update_meta_file_keys
    lastMap        \* local script: regex mappings used by the last update_meta_file_keys

vars == <<dirName, dirFiles, hasManifest, manifest, env, hasBuildInfo, buildInfo,
          err, hist, lastOp, folderStructure, dirs, placed, localMeta,
          preFiles, lastMap>>

finalVars == <<dirName, dirFiles, hasManifest, manifest, hist>>
buildVars == <<env, hasBuildInfo, buildInfo>>
localVars == <<folderStructure, dirs, placed, localMeta, preFiles, lastMap>>

(***************************************************************************)
(* Bounds                                                                  *)
(***************************************************************************)
MaxOps == 3

(***************************************************************************)
(* Character strings                                                       *)
(***************************************************************************)
LowerAlpha == <<"a", "b", "c", "d", "e", "f", "g", "h", "i", "j", "k", "l", "m", "n", "o", "p", "q", "r", "s", "t", "u", "v", "w", "x", "y", "z">>
UpperAlpha == <<"A", "B", "C", "D", "E", "F", "G", "H", "I", "J", "K", "L", "M", "N", "O", "P", "Q", "R", "S", "T", "U", "V", "W", "X", "Y", "Z">>
DigitChars == <<"0", "1", "2", "3", "4", "5", "6", "7", "8", "9">>

IndexIn(seq, c) ==
    IF \E i \in DOMAIN seq : seq[i] = c
    THEN CHOOSE i \in DOMAIN seq : seq[i] = c
    ELSE 0

\* str.upper / str.lower on one character
ToUpper(c) == LET i == IndexIn(LowerAlpha, c) IN IF i > 0 THEN UpperAlpha[i] ELSE c
ToLower(c) == LET i == IndexIn(UpperAlpha, c) IN IF i > 0 THEN LowerAlpha[i] ELSE c

\* str.capitalize: first character upper-cased, the rest lower-cased
Capitalize(s) ==
    IF s = <<>> THEN <<>>
    ELSE <<ToUpper(s[1])>> \o [i \in 1..(Len(s) - 1) |-> ToLower(s[i + 1])]

\* str.startswith
StartsWith(s, p) == Len(p) <= Len(s) /\ SubSeq(s, 1, Len(p)) = p

\* str.endswith
EndsWith(s, p) == Len(p) <= Len(s) /\ SubSeq(s, Len(s) - Len(p) + 1, Len(s)) = p

\* str.split(sep, maxsplit) for a one-character separator
RECURSIVE Split(_, _, _)
Split(s, sep, maxsplit) ==
    LET i == IndexIn(s, sep) IN
    IF maxsplit = 0 \/ i = 0 THEN <<s>>
    ELSE <<SubSeq(s, 1, i - 1)>> \o Split(SubSeq(s, i + 1, Len(s)), sep, maxsplit - 1)

\* "".join(parts)
RECURSIVE Join(_)
Join(parts) == IF parts = <<>> THEN <<>> ELSE Head(parts) \o Join(Tail(parts))

IsDigit(c) == IndexIn(DigitChars, c) > 0

\* int(group) for a string of decimal digits
RECURSIVE ToInt(_)
ToInt(g) ==
    IF g = <<>> THEN 0
    ELSE 10 * ToInt(SubSeq(g, 1, Len(g) - 1)) + (IndexIn(DigitChars, g[Len(g)]) - 1)

\* str(n) for n >= 0
RECURSIVE IntToStr(_)
IntToStr(n) ==
    IF n < 10 THEN <<DigitChars[n + 1]>>
    ELSE IntToStr(n \div 10) \o <<DigitChars[(n % 10) + 1]>>

(***************************************************************************)
(* Python dicts as insertion-ordered sequences of <<key, value>>           *)
(***************************************************************************)
DictHas(d, k) == \E i \in DOMAIN d : d[i][1] = k

DictGet(d, k) == d[CHOOSE i \in DOMAIN d : d[i][1] = k][2]

\* d[k] = v : an existing key keeps its position, a new key goes last
DictSet(d, k, v) ==
    IF DictHas(d, k)
    THEN [i \in DOMAIN d |-> IF d[i][1] = k THEN <<k, v>> ELSE d[i]]
    ELSE Append(d, <<k, v>>)

DictValues(d) == {d[i][2] : i \in DOMAIN d}

(***************************************************************************)
(* String literals of the source                                            *)
(***************************************************************************)
MetaName == <<"m", "e", "t", "a", ".", "j", "s", "o", "n">>
BuildInfoName == <<"b", "u", "i", "l", "d", "I", "n", "f", "o", ".", "j", "s", "o", "n">>
BuildInfoKey == <<"b", "u", "i", "l", "d", "I", "n", "f", "o">>
FilesKey == <<"f", "i", "l", "e", "s">>
HexExt == <<".", "h", "e", "x">>
Slash == "/"
GitInfoPrefix == <<"G", "I", "T", "_", "I", "N", "F", "O", "_">>
NODE_NAME == <<"N", "O", "D", "E", "_", "N", "A", "M", "E">>
BUILD_ID == <<"B", "U", "I", "L", "D", "_", "I", "D">>
BUILD_TIMESTAMP == <<"B", "U", "I", "L", "D", "_", "T", "I", "M", "E", "S", "T", "A", "M", "P">>
IAR_VERSION == <<"I", "A", "R", "_", "V", "E", "R", "S", "I", "O", "N">>
PYTHON_VERSION == <<"P", "Y", "T", "H", "O", "N", "_", "V", "E", "R", "S", "I", "O", "N">>
JLINK_VERSION == <<"J", "L", "I", "N", "K", "_", "V", "E", "R", "S", "I", "O", "N">>

\* names used as inputs
RootName == <<"r", "e", "l">>
NameA == <<"a">>
NameB == <<"b">>
NameS == <<"s">>
NameC == <<"c">>
FwA == <<"f", "0", "4", ".", "1", "0", ".", "2", ".", "0">>
FwB == <<"g", "1", ".", "2", ".", "3", ".", "4">>
FwShort == <<"v", "1", ".", "2", ".", "3">>
Readme == <<"r", ".", "t", "x", "t">>
K1 == <<"k", "1">>
K2 == <<"k", "2">>
K0 == <<"k", "0">>
K3 == <<"k", "3">>
GitUnusedMyRepo == <<"G", "I", "T", "_", "I", "N", "F", "O", "_", "u", "n", "u", "s", "e", "d", "_", "m", "y", "_", "r", "e", "p", "o">>
GitMyRepo == <<"G", "I", "T", "_", "I", "N", "F", "O", "_", "m", "y", "_", "r", "e", "p", "o">>
GitDouble == <<"G", "I", "T", "_", "I", "N", "F", "O", "_", "x", "_", "_", "Y">>
GitBare == <<"G", "I", "T", "_", "I", "N", "F", "O", "_">>
GitUpper == <<"G", "I", "T", "_", "I", "N", "F", "O", "_", "u", "n", "u", "s", "e", "d", "_", "M", "Y", "_", "r", "e", "p", "o">>
FileX1 == <<"x", "1">>
FileX2 == <<"x", "2">>
FileY1 == <<"y", "1">>
FileZ1 == <<"z", "1">>
FileHex == <<"y", "2", ".", "0", ".", "0", ".", "7", ".", "h", "e", "x">>
PatX == <<"x">>
PatX1 == <<"x", "1">>
PatY == <<"y">>
PatZ == <<"z">>

(***************************************************************************)
(* full_final_script.py : templates                                        *)
(***************************************************************************)
META_TEMPLATE ==
    [self |-> MetaName, selfDirName |-> <<>>, metaTargets |-> <<>>,
     files |-> <<>>, versionInfo |-> <<>>]

BUILD_INFO_TEMPLATE ==
    [buildNode |-> "", buildId |-> 0, buildTimestamp |-> "",
     buildYear |-> 0, buildMonth |-> 0, buildDay |-> 0,
     buildHour |-> 0, buildMinute |-> 0, buildSecond |-> 0,
     versionIar |-> "", versionPython |-> "", versionJlink |-> "",
     versionControlSystem |-> [type |-> "git", repositories |-> <<>>]]

(***************************************************************************)
(* The release tree walked by the final script: a root with two children,  *)
(* the first of which has a child of its own.  Children lists are in       *)
(* directory-listing order.                                                 *)
(***************************************************************************)
Dirs == 0..3
Root == 0
Children == [d \in Dirs |-> CASE d = 0 -> <<1, 2>> [] d = 1 -> <<3>> [] OTHER -> <<>>]
DirNames == {NameA, NameB, NameS, NameC}

(***************************************************************************)
(* Environment                                                             *)
(***************************************************************************)
\* os.environ.get(name, default)
EnvGet(e, name, default) == IF DictHas(e, name) THEN DictGet(e, name) ELSE default

\* dateutil.parser.parse on the timestamp strings of the model: the strings
\* below parse to the given instant, every other string (the empty string
\* included) raises ParserError.
TimestampTable ==
    << <<"2024-01-02T03:04:05",
         [iso |-> "2024-01-02T03:04:05+00:00", year |-> 2024, month |-> 1, day |-> 2,
          hour |-> 3, minute |-> 4, second |-> 5]>>,
       <<"2025-12-31 23:59:58",
         [iso |-> "2025-12-31T23:59:58+00:00", year |-> 2025, month |-> 12, day |-> 31,
          hour |-> 23, minute |-> 59, second |-> 58]>> >>

\* json.loads on the repository records of the model: the strings below are
\* valid JSON, every other string raises JSONDecodeError.
JsonTable ==
    << <<"{\"rev\": 1}", [rev |-> 1]>>, <<"{\"rev\": 2}", [rev |-> 2]>> >>

\* _get_repo_name splitting off one segment more: split("_", 3)[-1]
GetRepoNameDropSegment(env_var_name) ==
    LET head == Split(env_var_name, "_", 3)
        repo_name == head[Len(head)]
        parts == Split(repo_name, "_", Len(repo_name))
        camel == Join([i \in DOMAIN parts |->
                          IF Capitalize(parts[i]) # <<>> THEN Capitalize(parts[i])
                          ELSE <<"_">>])
    IN  <<ToLower(camel[1])>> \o SubSeq(camel, 2, Len(camel))

\* MetaJsonHandler._get_repo_name
GetRepoName(env_var_name) ==
    LET repo_name == Split(env_var_name, "_", 2)[3]
        parts == Split(repo_name, "_", Len(repo_name))
        camel == Join([i \in DOMAIN parts |->
                          IF Capitalize(parts[i]) # <<>> THEN Capitalize(parts[i])
                          ELSE <<"_">>])
    IN  <<ToLower(camel[1])>> \o SubSeq(camel, 2, Len(camel))

\* the loop over os.environ.items() of generate_build_info_file, from entry i on
RECURSIVE BuildRepos(_, _, _)
BuildRepos(e, i, repos) ==
    IF i > Len(e) THEN [err |-> "none", repos |-> repos]
    ELSE IF StartsWith(e[i][1], GitInfoPrefix)
         THEN IF DictHas(JsonTable, e[i][2])
              THEN BuildRepos(e, i + 1,
                              DictSet(repos, GetRepoName(e[i][1]), DictGet(JsonTable, e[i][2])))
              ELSE [err |-> "JSONDecodeError", repos |-> repos]
         ELSE BuildRepos(e, i + 1, repos)

\* MetaJsonHandler._load_json_file: the document read, seeded from the
\* template when the file is absent (the file exists afterwards).  The
\* documents hold strings, integers, lists and string-keyed dicts only,
\* which json.dump and json.load reproduce exactly, key order included.
LoadJsonFile(exists, doc, template) == IF exists THEN doc ELSE template

\* MetaJsonHandler.generate_build_info_file: the exception raised and the
\* document left at file_path
SynthesizeBuildInfo(exists, doc, e) ==
    LET loaded == LoadJsonFile(exists, doc, BUILD_INFO_TEMPLATE)
        ts == EnvGet(e, BUILD_TIMESTAMP, "")
        r == BuildRepos(e, 1, <<>>)
    IN  IF ~DictHas(TimestampTable, ts)
        THEN [err |-> "ParserError", doc |-> loaded]
        ELSE IF r.err # "none"
        THEN [err |-> r.err, doc |-> loaded]
        ELSE LET t == DictGet(TimestampTable, ts) IN
             [err |-> "none",
              doc |-> [buildNode |-> EnvGet(e, NODE_NAME, ""),
                       buildId |-> EnvGet(e, BUILD_ID, ""),
                       buildTimestamp |-> t.iso,
                       buildYear |-> t.year, buildMonth |-> t.month, buildDay |-> t.day,
                       buildHour |-> t.hour, buildMinute |-> t.minute,
                       buildSecond |-> t.second,
                       versionIar |-> EnvGet(e, IAR_VERSION, ""),
                       versionPython |-> EnvGet(e, PYTHON_VERSION, ""),
                       versionJlink |-> EnvGet(e, JLINK_VERSION, ""),
                       versionControlSystem |->
                           [type |-> loaded.versionControlSystem.type,
                            repositories |-> r.repos]]]

(***************************************************************************)
(* Version extraction: re.search(r"(\d+)\.(\d+)\.(\d+)\.(\d+)", file)      *)
(***************************************************************************)
\* index just past the maximal run of digits that starts at i
RECURSIVE DigitRunEnd(_, _)
DigitRunEnd(s, i) == IF i <= Len(s) /\ IsDigit(s[i]) THEN DigitRunEnd(s, i + 1) ELSE i

\* the match that starts at position i: <<>> or <<[groups, full]>>
MatchAt(s, i) ==
    LET e1 == DigitRunEnd(s, i)
        e2 == DigitRunEnd(s, e1 + 1)
        e3 == DigitRunEnd(s, e2 + 1)
        e4 == DigitRunEnd(s, e3 + 1)
        Dot(e) == e <= Len(s) /\ s[e] = "."
    IN  IF /\ e1 > i /\ Dot(e1)
           /\ e2 > e1 + 1 /\ Dot(e2)
           /\ e3 > e2 + 1 /\ Dot(e3)
           /\ e4 > e3 + 1
        THEN <<[groups |-> <<SubSeq(s, i, e1 - 1), SubSeq(s, e1 + 1, e2 - 1),
                             SubSeq(s, e2 + 1, e3 - 1), SubSeq(s, e3 + 1, e4 - 1)>>,
                full |-> SubSeq(s, i, e4 - 1)]>>
        ELSE <<>>

\* re.search: the leftmost match, <<>> when there is none
ReSearchVersion(s) ==
    LET starts == {i \in 1..Len(s) : MatchAt(s, i) # <<>>}
    IN  IF starts = {} THEN <<>>
        ELSE MatchAt(s, CHOOSE i \in starts : \A j \in starts : i <= j)

\* the versionInfo record built from a match object
VersionInfo(match) ==
    LET g == match.groups IN
    [versionCompact |-> IntToStr(ToInt(g[1])) \o <<".">> \o IntToStr(ToInt(g[2])) \o <<".">>
                        \o IntToStr(ToInt(g[3])) \o <<".">> \o IntToStr(ToInt(g[4])),
     versionFull |-> match.full,
     versionFamily |-> ToInt(g[1]), versionMajor |-> ToInt(g[2]),
     versionMinor |-> ToInt(g[3]), versionPatch |-> ToInt(g[4])]

\* ScanVersions with a break after the first matching file
RECURSIVE ScanVersionsBreak(_, _, _)
ScanVersionsBreak(files, i, versionInfo) ==
    IF i > Len(files) THEN versionInfo
    ELSE LET match == ReSearchVersion(files[i]) IN
         IF match # <<>> THEN <<VersionInfo(match[1])>>
         ELSE ScanVersionsBreak(files, i + 1, versionInfo)

\* the "for file in files" loop of create_meta_files_all, from file i on:
\* every matching file assigns versionInfo
RECURSIVE ScanVersions(_, _, _)
ScanVersions(files, i, versionInfo) ==
    IF i > Len(files) THEN versionInfo
    ELSE LET match == ReSearchVersion(files[i]) IN
         ScanVersions(files, i + 1,
                      IF match # <<>> THEN <<VersionInfo(match[1])>> ELSE versionInfo)

(***************************************************************************)
(* full_final_script.py : the manifest handler                             *)
(***************************************************************************)
\* the files os.walk lists for directory d: its regular files, then
\* buildInfo.json (release root only) and meta.json when they exist
ListDir(d, withBuildInfo) ==
    dirFiles[d]
    \o (IF d = Root /\ withBuildInfo THEN <<BuildInfoName>> ELSE <<>>)
    \o (IF d \in hasManifest THEN <<MetaName>> ELSE <<>>)

InListing(files, name) == \E i \in DOMAIN files : files[i] = name

\* the metaTargets list built from the child directories of d
MetaTargetsOf(d) ==
    [i \in DOMAIN Children[d] |->
        [metaInformationFile |-> dirName[Children[d][i]] \o <<Slash>> \o MetaName,
         targetName |-> dirName[Children[d][i]]]]

\* WalkDirectory with the test for a missing manifest dropped: selfDirName
\* and metaTargets are rewritten on every walk
WalkDirectoryAlwaysReset(d) ==
    LET files == ListDir(d, TRUE)
        loaded == LoadJsonFile(d \in hasManifest, manifest[d], META_TEMPLATE)
        m1 == [loaded EXCEPT !.selfDirName = dirName[d],
                             !.metaTargets = MetaTargetsOf(d)]
        m2 == IF InListing(files, BuildInfoName)
              THEN [m1 EXCEPT !.files = DictSet(@, BuildInfoKey, BuildInfoName)]
              ELSE m1
    IN  [m2 EXCEPT !.versionInfo = ScanVersions(files, 1, @)]

\* WalkDirectory with the test for a missing manifest inverted
WalkDirectoryInverted(d) ==
    LET files == ListDir(d, TRUE)
        loaded == LoadJsonFile(d \in hasManifest, manifest[d], META_TEMPLATE)
        m1 == IF InListing(files, MetaName)
              THEN [loaded EXCEPT !.selfDirName = dirName[d],
                                  !.metaTargets = MetaTargetsOf(d)]
              ELSE loaded
        m2 == IF InListing(files, BuildInfoName)
              THEN [m1 EXCEPT !.files = DictSet(@, BuildInfoKey, BuildInfoName)]
              ELSE m1
    IN  [m2 EXCEPT !.versionInfo = ScanVersions(files, 1, @)]

\* one iteration of the os.walk loop of create_meta_files_all: the manifest
\* saved for directory d.  The manifests of the model always hold a "files"
\* mapping, so the branch that creates it is never taken.
WalkDirectory(d) ==
    LET files == ListDir(d, TRUE)
        loaded == LoadJsonFile(d \in hasManifest, manifest[d], META_TEMPLATE)
        m1 == IF ~InListing(files, MetaName)
              THEN [loaded EXCEPT !.selfDirName = dirName[d],
                                  !.metaTargets = MetaTargetsOf(d)]
              ELSE loaded
        m2 == IF InListing(files, BuildInfoName)
              THEN [m1 EXCEPT !.files = DictSet(@, BuildInfoKey, BuildInfoName)]
              ELSE m1
    IN  [m2 EXCEPT !.versionInfo = ScanVersions(files, 1, @)]

\* MetaJsonHandler.update_meta_json(<d>/meta.json, key, value, json_path).
\* json_path "files" names a dict; "selfDirName" and "metaTargets" name a
\* str and a list, whose item assignment raises TypeError after the file
\* was seeded.
UpdateMetaJson(d, key, value, json_path) ==
    LET loaded == LoadJsonFile(d \in hasManifest, manifest[d], META_TEMPLATE)
        named == IF loaded.selfDirName = <<>>
                 THEN [loaded EXCEPT !.selfDirName = dirName[d]]
                 ELSE loaded
    IN  /\ Len(hist) < MaxOps
        /\ hasManifest' = hasManifest \cup {d}
        /\ IF json_path = "files"
           THEN /\ manifest' = [manifest EXCEPT ![d] =
                                   [named EXCEPT !.files = DictSet(@, key, value)]]
                /\ err' = "none"
           ELSE /\ manifest' = [manifest EXCEPT ![d] = loaded]
                /\ err' = "TypeError"
        /\ hist' = Append(hist, IF json_path = "files" THEN "update_meta_json"
                                 ELSE "update_meta_json raised")
        /\ UNCHANGED <<dirName, dirFiles, lastOp>>
        /\ UNCHANGED buildVars
        /\ UNCHANGED localVars

\* MetaJsonHandler.create_meta_files_all(root): build info first, then the
\* walk; an exception of generate_build_info_file ends the call before the
\* walk.
CreateMetaFilesAll ==
    LET o == SynthesizeBuildInfo(hasBuildInfo, buildInfo, env) IN
    /\ Len(hist) < MaxOps
    /\ hasBuildInfo' = TRUE
    /\ buildInfo' = o.doc
    /\ err' = o.err
    /\ IF o.err = "none"
       THEN /\ manifest' = [d \in Dirs |-> WalkDirectory(d)]
            /\ hasManifest' = Dirs
       ELSE UNCHANGED <<manifest, hasManifest>>
    /\ hist' = Append(hist, "create_meta_files_all")
    /\ UNCHANGED <<dirName, dirFiles, env, lastOp>>
    /\ UNCHANGED localVars

\* the directory d is renamed on disk between two runs
RenameDir(d, n) ==
    /\ Len(hist) < MaxOps
    /\ d # Root
    /\ \A c \in Dirs \ {Root} : dirName[c] # n
    /\ dirName' = [dirName EXCEPT ![d] = n]
    /\ hist' = Append(hist, "rename")
    /\ UNCHANGED <<dirFiles, hasManifest, manifest, err, lastOp>>
    /\ UNCHANGED buildVars
    /\ UNCHANGED localVars

(***************************************************************************)
(* Initial states                                                          *)
(***************************************************************************)
EnvGood ==
    << <<NODE_NAME, "node1">>, <<BUILD_TIMESTAMP, "2024-01-02T03:04:05">>,
       <<GitMyRepo, "{\"rev\": 1}">> >>
EnvNoTimestamp == << <<NODE_NAME, "node1">>, <<GitMyRepo, "{\"rev\": 1}">> >>

\* the regular files of the release tree, per directory, in listing order
Listings ==
    {[d \in Dirs |-> CASE d = 1 -> la [] d = 3 -> ls [] OTHER -> <<>>] :
        la \in {<<>>, <<FwA, FwB>>, <<FwB, Readme, FwA>>, <<FwShort>>},
        ls \in {<<>>, <<FwB>>}}

NoLocal ==
    /\ folderStructure = <<>>
    /\ dirs = {}
    /\ placed = <<>>
    /\ localMeta = <<>>
    /\ preFiles = <<>>
    /\ lastMap = <<>>

Init ==
    /\ dirName = [d \in Dirs |-> CASE d = 0 -> RootName [] d = 1 -> NameA
                                   [] d = 2 -> NameB [] OTHER -> NameS]
    /\ dirFiles \in Listings
    /\ hasManifest = {}
    /\ manifest = [d \in Dirs |-> META_TEMPLATE]
    /\ env \in {EnvGood, EnvNoTimestamp}
    /\ hasBuildInfo = FALSE
    /\ buildInfo = BUILD_INFO_TEMPLATE
    /\ err = "none"
    /\ hist = <<>>
    /\ lastOp = "init"
    /\ NoLocal

Next ==
    \/ \E d \in Dirs, key \in {K1, K2}, value \in {Readme},
          json_path \in {"files", "metaTargets"} :
          UpdateMetaJson(d, key, value, json_path)
    \/ CreateMetaFilesAll
    \/ \E d \in Dirs, n \in DirNames : RenameDir(d, n)

Spec == Init /\ [][Next]_vars

(***************************************************************************)
(* Build-info synthesis on its own: generate_build_info_file is called     *)
(* under an environment that changes between calls.                        *)
(***************************************************************************)
MaxGitVars == 2

GitNames == {GitUnusedMyRepo, GitMyRepo, GitDouble, GitBare, GitUpper}
JsonValues == {"{\"rev\": 1}", "{\"rev\": 2}", "not json"}
TimestampValues == {"2024-01-02T03:04:05", "2025-12-31 23:59:58", "yesterday-ish"}

\* the GIT_INFO_ variables of an environment: at most MaxGitVars, names distinct
GitEnvs ==
    {g \in UNION {[1..k -> GitNames \X JsonValues] : k \in 0..MaxGitVars} :
        \A i, j \in DOMAIN g : i # j => g[i][1] # g[j][1]}

InitBuildInfo ==
    /\ dirName = [d \in Dirs |-> CASE d = 0 -> RootName [] d = 1 -> NameA
                                   [] d = 2 -> NameB [] OTHER -> NameS]
    /\ dirFiles = [d \in Dirs |-> <<>>]
    /\ hasManifest = {}
    /\ manifest = [d \in Dirs |-> META_TEMPLATE]
    /\ \E g \in GitEnvs, t \in {<<>>, << <<BUILD_TIMESTAMP, "2024-01-02T03:04:05">> >>} :
           env = << <<NODE_NAME, "node1">> >> \o t \o g
    /\ hasBuildInfo = FALSE
    /\ buildInfo = BUILD_INFO_TEMPLATE
    /\ err = "none"
    /\ hist = <<>>
    /\ lastOp = "init"
    /\ NoLocal

\* MetaJsonHandler.generate_build_info_file(file_path)
GenerateBuildInfoFile ==
    LET o == SynthesizeBuildInfo(hasBuildInfo, buildInfo, env) IN
    /\ hasBuildInfo' = TRUE
    /\ buildInfo' = o.doc
    /\ err' = o.err
    /\ lastOp' = "generate_build_info_file"
    /\ UNCHANGED <<env>>
    /\ UNCHANGED finalVars
    /\ UNCHANGED localVars

\* the build job exports BUILD_TIMESTAMP before the next call
SetTimestamp(v) ==
    /\ EnvGet(env, BUILD_TIMESTAMP, "") # v
    /\ env' = DictSet(env, BUILD_TIMESTAMP, v)
    /\ lastOp' = "setenv"
    /\ UNCHANGED <<hasBuildInfo, buildInfo, err>>
    /\ UNCHANGED finalVars
    /\ UNCHANGED localVars

\* BUILD_TIMESTAMP is removed from the environment before the next call
UnsetTimestamp ==
    /\ DictHas(env, BUILD_TIMESTAMP)
    /\ env' = SelectSeq(env, LAMBDA kv : kv[1] # BUILD_TIMESTAMP)
    /\ lastOp' = "unsetenv"
    /\ UNCHANGED <<hasBuildInfo, buildInfo, err>>
    /\ UNCHANGED finalVars
    /\ UNCHANGED localVars

NextBuildInfo ==
    \/ GenerateBuildInfoFile
    \/ \E v \in TimestampValues : SetTimestamp(v)
    \/ UnsetTimestamp

SpecBuildInfo == InitBuildInfo /\ [][NextBuildInfo]_vars

(***************************************************************************)
(* full_local_script.py : folder router and key canonicalisation           *)
(*                                                                         *)
(* A routing node is a dict: the key "files" maps logical keys to regex    *)
(* patterns, every other key names a subfolder whose value is a node.  The *)
(* patterns of the model have the form ^<literal>.* and are written as     *)
(* their literal.  Directories are paths below the working directory.      *)
(***************************************************************************)
FilesOf(patterns) == << <<FilesKey, patterns>> >>

FolderStructures ==
    { << <<NameA, FilesOf(<< <<K1, PatX>> >>)>>,
         <<NameB, FilesOf(<< <<K2, PatY>> >>)>> >>,
      << <<NameA, FilesOf(<< <<K1, PatX>> >>)
                  \o << <<NameS, FilesOf(<< <<K3, PatY>> >>)>> >> >>,
         <<NameB, FilesOf(<< <<K2, PatX1>> >>)>> >>,
      << <<FilesKey, << <<K0, PatZ>> >> >>,
         <<NameA, FilesOf(<< <<K1, PatX>>, <<K2, PatX1>> >>)>> >>,
      << <<NameA, << <<NameS, FilesOf(<< <<K1, PatX>> >>)>> >> >>,
         <<NameB, FilesOf(<< <<K1, PatY>> >>)>> >> }

Cwd == <<>>
AllPaths == {Cwd, <<NameA>>, <<NameB>>, <<NameA, NameS>>}
\* directory-listing order of the directories
PathOrder == <<Cwd, <<NameA>>, <<NameA, NameS>>, <<NameB>>>>

\* re.match(regex, name) for a pattern ^<literal>.*
ReMatch(regex, name) == StartsWith(name, regex)

\* create_folders(folder_structure): the directories that exist afterwards
RECURSIVE MakeSubfolders(_, _, _, _)
MakeSubfolders(folder, node, i, existing) ==
    IF i > Len(node) THEN existing
    ELSE MakeSubfolders(folder, node, i + 1,
                        IF node[i][1] # FilesKey
                        THEN existing \cup {<<folder, node[i][1]>>}
                        ELSE existing)

RECURSIVE MakeFolders(_, _, _)
MakeFolders(fs, i, existing) ==
    IF i > Len(fs) THEN existing
    ELSE LET folder == fs[i][1] IN
         MakeFolders(fs, i + 1,
                     IF folder # FilesKey /\ <<folder>> \notin existing
                     THEN MakeSubfolders(folder, fs[i][2], 1, existing \cup {<<folder>>})
                     ELSE existing)

CreateFolders ==
    /\ dirs' = MakeFolders(folderStructure, 1, dirs)
    /\ err' = "none"
    /\ lastOp' = "create_folders"
    /\ UNCHANGED <<folderStructure, placed, localMeta, preFiles, lastMap>>
    /\ UNCHANGED finalVars
    /\ UNCHANGED buildVars

\* the os.rename calls move_files issues for one file, in order: for every
\* folder, one per matching pattern of the folder, then for every subfolder
\* one per matching pattern of the subfolder; a subfolder node without
\* "files" raises KeyError
RenamesInto(dest, patterns, file) ==
    LET hits == SelectSeq(patterns, LAMBDA kv : ReMatch(kv[2], file))
    IN  [i \in DOMAIN hits |-> [kind |-> "rename", dest |-> dest]]

RECURSIVE SubfolderAttempts(_, _, _, _)
SubfolderAttempts(folder, node, i, file) ==
    IF i > Len(node) THEN <<>>
    ELSE IF node[i][1] = FilesKey THEN SubfolderAttempts(folder, node, i + 1, file)
    ELSE IF ~DictHas(node[i][2], FilesKey)
         THEN <<[kind |-> "KeyError", dest |-> <<folder, node[i][1]>>]>>
         ELSE RenamesInto(<<folder, node[i][1]>>, DictGet(node[i][2], FilesKey), file)
              \o SubfolderAttempts(folder, node, i + 1, file)

RECURSIVE Attempts(_, _, _)
Attempts(fs, i, file) ==
    IF i > Len(fs) THEN <<>>
    ELSE IF fs[i][1] = FilesKey THEN Attempts(fs, i + 1, file)
    ELSE (IF DictHas(fs[i][2], FilesKey)
          THEN RenamesInto(<<fs[i][1]>>, DictGet(fs[i][2], FilesKey), file)
          ELSE <<>>)
         \o SubfolderAttempts(fs[i][1], fs[i][2], 1, file)
         \o Attempts(fs, i + 1, file)

\* os.rename(file, dest/file) from the working directory
RECURSIVE RunAttempts(_, _, _, _)
RunAttempts(att, j, file, pl) ==
    IF j > Len(att) THEN [placed |-> pl, err |-> "none"]
    ELSE IF att[j].kind = "KeyError" THEN [placed |-> pl, err |-> "KeyError"]
    ELSE IF ~InListing(pl[Cwd], file) \/ att[j].dest \notin dirs
         THEN [placed |-> pl, err |-> "FileNotFoundError"]
         ELSE RunAttempts(att, j + 1, file,
                          [pl EXCEPT ![Cwd] = SelectSeq(@, LAMBDA f : f # file),
                                     ![att[j].dest] = Append(@, file)])

\* the loop of move_files over os.listdir(), taken before the first move;
\* the first exception ends the call.  The directory entries of the listing
\* carry names no pattern of the model matches and are left out.
RECURSIVE MoveLoop(_, _, _)
MoveLoop(listing, i, pl) ==
    IF i > Len(listing) THEN [placed |-> pl, err |-> "none"]
    ELSE LET r == RunAttempts(Attempts(folderStructure, 1, listing[i]), 1, listing[i], pl)
         IN  IF r.err # "none" THEN r ELSE MoveLoop(listing, i + 1, r.placed)

MoveFiles ==
    LET r == MoveLoop(placed[Cwd], 1, placed) IN
    /\ placed' = r.placed
    /\ err' = r.err
    /\ lastOp' = "move_files"
    /\ UNCHANGED <<folderStructure, dirs, localMeta, preFiles, lastMap>>
    /\ UNCHANGED finalVars
    /\ UNCHANGED buildVars

\* create_meta_json(root_path): the manifest written for directory p whose
\* listing is files
LocalBaseName(p) == IF p = Cwd THEN RootName ELSE p[Len(p)]

ChildDirs(p) ==
    LET kids == SelectSeq(PathOrder,
                          LAMBDA q : q \in dirs /\ Len(q) = Len(p) + 1
                                     /\ SubSeq(q, 1, Len(p)) = p)
    IN  [i \in DOMAIN kids |-> kids[i][Len(kids[i])]]

RebuiltManifest(p, files) ==
    LET match == IF files # <<>> /\ EndsWith(files[1], HexExt)
                 THEN ReSearchVersion(files[1]) ELSE <<>>
        named == SelectSeq(files, LAMBDA f : f # MetaName)
        kids == ChildDirs(p)
    IN  [self |-> MetaName,
         selfDirName |-> LocalBaseName(p),
         metaTargets |-> [i \in DOMAIN kids |->
                             [targetName |-> kids[i],
                              metaInformationFile |-> kids[i] \o <<Slash>> \o MetaName]],
         files |-> [i \in DOMAIN named |-> <<named[i], named[i]>>],
         versionInfo |-> IF match # <<>> THEN <<VersionInfo(match[1])>> ELSE <<>>]

\* the position of meta.json in a directory listing is the file system's
\* choice: metaFirst lists it before the other files
CreateMetaJson(metaFirst) ==
    /\ localMeta' =
         [p \in AllPaths |->
            IF p \notin dirs THEN <<>>
            ELSE LET own == IF localMeta[p] # <<>> THEN <<MetaName>> ELSE <<>>
                     files == IF metaFirst THEN own \o placed[p] ELSE placed[p] \o own
                 IN  <<RebuiltManifest(p, files)>>]
    /\ err' = "none"
    /\ lastOp' = "create_meta_json"
    /\ UNCHANGED <<folderStructure, dirs, placed, preFiles, lastMap>>
    /\ UNCHANGED finalVars
    /\ UNCHANGED buildVars

\* regex_mappings.setdefault(key, []).append(value)
AppendPattern(mappings, key, value) ==
    IF DictHas(mappings, key)
    THEN DictSet(mappings, key, Append(DictGet(mappings, key), value))
    ELSE Append(mappings, <<key, <<value>>>>)

RECURSIVE AddPatterns(_, _, _)
AddPatterns(patterns, i, mappings) ==
    IF i > Len(patterns) THEN mappings
    ELSE AddPatterns(patterns, i + 1, AppendPattern(mappings, patterns[i][1], patterns[i][2]))

\* get_regex_mappings.extract_recursive
RECURSIVE ExtractRecursive(_, _)
RECURSIVE ExtractSubfolders(_, _, _)
ExtractRecursive(data, mappings) ==
    ExtractSubfolders(data, 1,
        IF DictHas(data, FilesKey)
        THEN AddPatterns(DictGet(data, FilesKey), 1, mappings)
        ELSE mappings)
ExtractSubfolders(data, i, mappings) ==
    IF i > Len(data) THEN mappings
    ELSE ExtractSubfolders(data, i + 1,
                           IF data[i][1] # FilesKey
                           THEN ExtractRecursive(data[i][2], mappings)
                           ELSE mappings)

\* get_regex_mappings(folder_structure)
GetRegexMappings(fs) == ExtractRecursive(fs, <<>>)

\* NewKey returning the last logical key with a matching pattern
NewKeyLastMatch(regex_mappings, old_key) ==
    LET hits == {i \in DOMAIN regex_mappings :
                    \E j \in DOMAIN regex_mappings[i][2] :
                        ReMatch(regex_mappings[i][2][j], old_key)}
    IN  IF hits = {} THEN old_key
        ELSE regex_mappings[CHOOSE i \in hits : \A k \in hits : k <= i][1]

\* the next(...) expression of update_meta_file_keys
NewKey(regex_mappings, old_key) ==
    LET hits == {i \in DOMAIN regex_mappings :
                    \E j \in DOMAIN regex_mappings[i][2] :
                        ReMatch(regex_mappings[i][2][j], old_key)}
    IN  IF hits = {} THEN old_key
        ELSE regex_mappings[CHOOSE i \in hits : \A k \in hits : i <= k][1]

\* UpdatedFiles keeping only the entries whose key was rewritten
RECURSIVE UpdatedFilesMatchedOnly(_, _, _, _)
UpdatedFilesMatchedOnly(files, i, regex_mappings, updated_files) ==
    IF i > Len(files) THEN updated_files
    ELSE UpdatedFilesMatchedOnly(files, i + 1, regex_mappings,
             IF NewKey(regex_mappings, files[i][1]) # files[i][1]
             THEN DictSet(updated_files, NewKey(regex_mappings, files[i][1]), files[i][2])
             ELSE updated_files)

\* the loop of update_meta_file_keys over meta_data["files"].items()
RECURSIVE UpdatedFiles(_, _, _, _)
UpdatedFiles(files, i, regex_mappings, updated_files) ==
    IF i > Len(files) THEN updated_files
    ELSE UpdatedFiles(files, i + 1, regex_mappings,
                      DictSet(updated_files, NewKey(regex_mappings, files[i][1]), files[i][2]))

\* update_meta_file_keys(root_path, regex_mappings)
UpdateMetaFileKeys(regex_mappings) ==
    /\ localMeta' =
         [p \in AllPaths |->
            IF localMeta[p] = <<>> THEN <<>>
            ELSE <<[localMeta[p][1] EXCEPT
                       !.files = UpdatedFiles(@, 1, regex_mappings, <<>>)]>>]
    /\ preFiles' = localMeta
    /\ lastMap' = regex_mappings
    /\ err' = "none"
    /\ lastOp' = "update_meta_file_keys"
    /\ UNCHANGED <<folderStructure, dirs, placed>>
    /\ UNCHANGED finalVars
    /\ UNCHANGED buildVars

WorkingDirs ==
    {{Cwd}, {Cwd, <<NameA>>}, {Cwd, <<NameA>>, <<NameB>>},
     {Cwd, <<NameA>>, <<NameB>>, <<NameA, NameS>>}}

WorkingFiles ==
    {<<FileX1, FileY1, FileZ1>>, <<FileX1, FileX2>>, <<FileY1, FileX1>>,
     <<FileHex, FileX2, FileZ1>>}

InitLocal ==
    /\ dirName = [d \in Dirs |-> CASE d = 0 -> RootName [] d = 1 -> NameA
                                   [] d = 2 -> NameB [] OTHER -> NameS]
    /\ dirFiles = [d \in Dirs |-> <<>>]
    /\ hasManifest = {}
    /\ manifest = [d \in Dirs |-> META_TEMPLATE]
    /\ env = <<>>
    /\ hasBuildInfo = FALSE
    /\ buildInfo = BUILD_INFO_TEMPLATE
    /\ err = "none"
    /\ hist = <<>>
    /\ lastOp = "init"
    /\ folderStructure \in FolderStructures
    /\ dirs \in WorkingDirs
    /\ \E w \in WorkingFiles : placed = [p \in AllPaths |-> IF p = Cwd THEN w ELSE <<>>]
    /\ localMeta = [p \in AllPaths |-> <<>>]
    /\ preFiles = [p \in AllPaths |-> <<>>]
    /\ lastMap = <<>>

NextLocal ==
    \/ CreateFolders
    \/ MoveFiles
    \/ \E metaFirst \in BOOLEAN : CreateMetaJson(metaFirst)
    \/ \E fs \in FolderStructures : UpdateMetaFileKeys(GetRegexMappings(fs))

SpecLocal == InitLocal /\ [][NextLocal]_vars

(***************************************************************************)
(* Properties of the manifest handler (specification Spec)                 *)
(***************************************************************************)
LastCall == IF hist = <<>> THEN "none" ELSE hist[Len(hist)]
WalkReturned == LastCall = "create_meta_files_all" /\ err = "none"

\* C1: Mode B is idempotent: a create_meta_files_all that directly follows
\* a create_meta_files_all on the same tree and environment leaves every
\* meta.json, and the set of directories holding one, as the first run left
\* them.
ModeBIdempotent ==
    [][(LastCall = "create_meta_files_all"
        /\ hist' = Append(hist, "create_meta_files_all"))
       => (manifest' = manifest /\ hasManifest' = hasManifest)]_vars

\* a second walk in a row has returned over manifests with version data,
\* child links and the build-info link
ModeBSecondRun ==
    /\ Len(hist) >= 2
    /\ hist[Len(hist) - 1] = "create_meta_files_all"
    /\ WalkReturned
    /\ manifest[Root].metaTargets # <<>>
    /\ DictHas(manifest[Root].files, BuildInfoKey)
    /\ \E d \in Dirs : manifest[d].versionInfo # <<>>

\* C2: selfDirName is set once: no step (update_meta_json, a walk, a
\* rename of the directory) changes a non-empty selfDirName of an existing
\* manifest, or removes the manifest.
SelfDirNameImmutable ==
    [][\A d \in Dirs :
          (d \in hasManifest /\ manifest[d].selfDirName # <<>>)
          => (d \in hasManifest' /\ manifest'[d].selfDirName = manifest[d].selfDirName)]_vars

\* a walk has returned over a directory that was renamed after its manifest
\* was created: the manifest still carries the old name
SelfDirNameKeptAfterRename ==
    /\ WalkReturned
    /\ \E d \in hasManifest :
          /\ manifest[d].selfDirName # <<>>
          /\ manifest[d].selfDirName # dirName[d]

\* the positions of the listing of d whose file name holds a N.N.N.N pattern
VersionedFiles(d) ==
    {i \in DOMAIN ListDir(d, hasBuildInfo) : ReSearchVersion(ListDir(d, hasBuildInfo)[i]) # <<>>}

VersionOfFile(d, i) == <<VersionInfo(ReSearchVersion(ListDir(d, hasBuildInfo)[i])[1])>>

PipelineDone ==
    /\ WalkReturned
    /\ \A i \in 1..(Len(hist) - 1) : hist[i] = "update_meta_json"

\* C8: after the build pipeline (update_meta_json calls, then one
\* create_meta_files_all) every manifest lists exactly its child
\* directories in metaTargets.
MetaTargetsBackfilled ==
    PipelineDone => \A d \in Dirs : manifest[d].metaTargets = MetaTargetsOf(d)

(***************************************************************************)
(* Properties of build-info synthesis (specification SpecBuildInfo)        *)
(***************************************************************************)
GenerateReturned == lastOp = "generate_build_info_file" /\ err = "none"

Repositories == buildInfo.versionControlSystem.repositories

\* lower camel case of an underscore-separated identifier: every segment
\* capitalised (an empty segment gives "_"), first character lower-cased
LowerCamel(s) ==
    LET parts == Split(s, "_", Len(s))
        camel == Join([i \in DOMAIN parts |->
                          IF parts[i] = <<>> THEN <<"_">> ELSE Capitalize(parts[i])])
    IN  <<ToLower(camel[1])>> \o SubSeq(camel, 2, Len(camel))

\* what follows GIT_INFO_ in a variable name
Remainder(name) == SubSeq(name, Len(GitInfoPrefix) + 1, Len(name))

GitVars == {i \in DOMAIN env : StartsWith(env[i][1], GitInfoPrefix)}

MissingTimestampNotZeroFilled ==
    (lastOp = "generate_build_info_file" /\ ~DictHas(env, BUILD_TIMESTAMP)) =>
        /\ err # "none"
        /\ ~(/\ hasBuildInfo
             /\ buildInfo.buildTimestamp = ""
             /\ buildInfo.buildYear = 0 /\ buildInfo.buildMonth = 0
             /\ buildInfo.buildDay = 0 /\ buildInfo.buildHour = 0
             /\ buildInfo.buildMinute = 0 /\ buildInfo.buildSecond = 0)

(***************************************************************************)
(* Properties of the router and the key pass (specification SpecLocal)     *)
(***************************************************************************)
TopFolders == {i \in DOMAIN folderStructure : folderStructure[i][1] # FilesKey}

SubFolders(i) ==
    {j \in DOMAIN folderStructure[i][2] : folderStructure[i][2][j][1] # FilesKey}

\* every folder and subfolder the routing specification names
RoutedDirs ==
    {<<folderStructure[i][1]>> : i \in TopFolders}
    \cup UNION {{<<folderStructure[i][1], folderStructure[i][2][j][1]>> : j \in SubFolders(i)} :
                  i \in TopFolders}

\* every subfolder node holds a "files" mapping
SubfoldersHaveFiles ==
    \A i \in TopFolders : \A j \in SubFolders(i) :
        DictHas(folderStructure[i][2][j][2], FilesKey)

\* C4: move_files returns without error, every file whose name matches a
\* pattern lies in the folder of its first matching node and every other
\* file is still in the working directory.
MoveFirstMatchWins ==
    (lastOp = "move_files" /\ RoutedDirs \subseteq dirs /\ SubfoldersHaveFiles) =>
        /\ err = "none"
        /\ \A p \in AllPaths : \A k \in DOMAIN placed[p] :
              LET att == Attempts(folderStructure, 1, placed[p][k]) IN
              p = IF att = <<>> THEN Cwd ELSE att[1].dest

\* C5: after create_folders every folder of the specification and every
\* subfolder inside it exists.
FoldersCreated ==
    lastOp = "create_folders" => RoutedDirs \subseteq dirs

\* the logical key a files entry is to be stored under: the first key of
\* the mapping with a pattern that prefix-matches old_key, else old_key
FirstMatchingKey(mappings, old_key) ==
    IF \E i \in DOMAIN mappings : \E j \in DOMAIN mappings[i][2] :
           StartsWith(old_key, mappings[i][2][j])
    THEN mappings[CHOOSE i \in DOMAIN mappings :
                     /\ \E j \in DOMAIN mappings[i][2] : StartsWith(old_key, mappings[i][2][j])
                     /\ \A k \in 1..(i - 1) : \A j \in DOMAIN mappings[k][2] :
                            ~StartsWith(old_key, mappings[k][2][j])][1]
    ELSE old_key

KeysRewritten == lastOp = "update_meta_file_keys"
Rewritten == {p \in AllPaths : preFiles[p] # <<>>}
FilesBefore(p) == preFiles[p][1].files
FilesAfter(p) == localMeta[p][1].files

\* the last entry of the old files mapping that is stored under key
LastEntryFor(p, key) ==
    CHOOSE i \in DOMAIN FilesBefore(p) :
        /\ FirstMatchingKey(lastMap, FilesBefore(p)[i][1]) = key
        /\ \A j \in DOMAIN FilesBefore(p) :
              FirstMatchingKey(lastMap, FilesBefore(p)[j][1]) = key => j <= i

\* C9 as stated: every entry's filename is stored under the entry's new key.
EveryEntryUnderItsKey ==
    KeysRewritten =>
        \A p \in Rewritten : \A i \in DOMAIN FilesBefore(p) :
            LET key == FirstMatchingKey(lastMap, FilesBefore(p)[i][1]) IN
            /\ DictHas(FilesAfter(p), key)
            /\ DictGet(FilesAfter(p), key) = FilesBefore(p)[i][2]

\* C9 amended: every entry's new key is present afterwards and holds the
\* filename of the last entry, in the mapping's order, with that new key:
\* the entry's own filename when no later entry gets the same key.
LastEntryUnderItsKey ==
    KeysRewritten =>
        \A p \in Rewritten : \A i \in DOMAIN FilesBefore(p) :
            LET key == FirstMatchingKey(lastMap, FilesBefore(p)[i][1]) IN
            /\ DictHas(FilesAfter(p), key)
            /\ DictGet(FilesAfter(p), key) = FilesBefore(p)[LastEntryFor(p, key)][2]

\* a key pass has rewritten a key that two logical keys match and left an
\* unmatched key alone
KeyRewrittenAndKeyKept ==
    /\ KeysRewritten
    /\ \E p \in Rewritten : \E i, j \in DOMAIN FilesBefore(p) :
          /\ FirstMatchingKey(lastMap, FilesBefore(p)[i][1]) # FilesBefore(p)[i][1]
          /\ Cardinality({m \in DOMAIN lastMap : \E n \in DOMAIN lastMap[m][2] :
                             StartsWith(FilesBefore(p)[i][1], lastMap[m][2][n])}) > 1
          /\ FirstMatchingKey(lastMap, FilesBefore(p)[j][1]) = FilesBefore(p)[j][1]

\* C10 as stated: the key pass keeps the set of filenames and the number of
\* entries of every manifest.
NoFileLost ==
    KeysRewritten =>
        \A p \in Rewritten :
            /\ DictValues(FilesAfter(p)) = DictValues(FilesBefore(p))
            /\ Len(FilesAfter(p)) = Len(FilesBefore(p))

\* C10 amended: one entry remains per new key, holding the filename of the
\* last old entry with that new key; filenames and entry count are
\* unchanged when no two old keys get the same new key.
OneFilePerNewKey ==
    KeysRewritten =>
        \A p \in Rewritten :
            LET newKeys == {FirstMatchingKey(lastMap, FilesBefore(p)[i][1]) :
                               i \in DOMAIN FilesBefore(p)}
            IN  /\ Len(FilesAfter(p)) = Cardinality(newKeys)
                /\ DictValues(FilesAfter(p)) =
                       {FilesBefore(p)[LastEntryFor(p, k)][2] : k \in newKeys}
                /\ Cardinality(newKeys) = Len(FilesBefore(p)) =>
                       /\ DictValues(FilesAfter(p)) = DictValues(FilesBefore(p))
                       /\ Len(FilesAfter(p)) = Len(FilesBefore(p))

\* a key pass has stored two entries of one manifest under the same key
TwoEntriesOneKey ==
    /\ KeysRewritten
    /\ \E p \in Rewritten : \E i, j \in DOMAIN FilesBefore(p) :
          /\ i # j
          /\ FilesBefore(p)[i][2] # FilesBefore(p)[j][2]
          /\ FirstMatchingKey(lastMap, FilesBefore(p)[i][1])
                 = FirstMatchingKey(lastMap, FilesBefore(p)[j][1])
    /\ \E p \in Rewritten : \E i \in DOMAIN FilesBefore(p) :
          FirstMatchingKey(lastMap, FilesBefore(p)[i][1]) = FilesBefore(p)[i][1]
====
